---- MODULE Spec2Model ----
(***************************************************************************)
(* Model of hiltnlp (src/hiltnlp/__init__.py): speaker tagging, turn-head  *)
(* tagging, turn assembly and the type-checked Turn links.                 *)
(*                                                                         *)
(* A document is a sequence of sentence annotations.  A sentence is named  *)
(* by its position in the annotation file (1..n); its text is a tuple of   *)
(* one-character strings, so that "in", lower() and split(":") are         *)
(* computed on characters.  Feature values are character tuples as well.   *)
(***************************************************************************)
EXTENDS Integers, Sequences, FiniteSets, TLC

\* ------------------------------------------------------------------ bounds
\* Longest document explored by Spec.
MaxLen == 4
\* Longest document explored by SpecOverwrite and SpecLinks.
MaxLenSmall == 2
\* Number of features an earlier run may have left on the document.
MaxPreset == 1
\* Number of assignments to Turn links explored after a get_turns call.
MaxAssign == 2

\* ----------------------------------------------------------------- strings
NoneStr == <<"N", "o", "n", "e">>
TrueStr == <<"T", "r", "u", "e">>
FalseStr == <<"F", "a", "l", "s", "e">>
Colon == ":"

\* The sentence texts documents are built from.
TextA == <<"A", ":", "h">>
TextB == <<"B", ":", "A", ":">>
TextPlain == <<"o", "k">>
TextMedia == <<"f", ".", "m", "p", "3">>
TextMediaTagged == <<"B", ":", ".", "W", "A", "V">>
Texts == {TextA, TextB, TextPlain, TextMedia, TextMediaTagged}

\* str.lower() on one character of the alphabet above.
LowerChar(c) ==
    CASE c = "A" -> "a"
      [] c = "B" -> "b"
      [] c = "W" -> "w"
      [] c = "V" -> "v"
      [] c = "N" -> "n"
      [] c = "T" -> "t"
      [] c = "F" -> "f"
      [] OTHER -> c

\* text.lower()
Lower(text) == [k \in 1..Len(text) |-> LowerChar(text[k])]

\* pat in text
Contains(text, pat) ==
    \E k \in 0..(Len(text) - Len(pat)) : SubSeq(text, k + 1, k + Len(pat)) = pat

media_file_extensions ==
    << <<".", "m", "p", "3">>,
       <<".", "m", "p", "4">>,
       <<".", "a", "i", "f", "f">>,
       <<".", "r", "a", "w">>,
       <<".", "w", "a", "v">>,
       <<".", "f", "l", "a", "c">> >>

\* Mutant of IsMediaLine: the extension is looked for in the text as written.
IsMediaLineCaseSensitive(text) ==
    \E e \in 1..Len(media_file_extensions) :
        Contains(text, media_file_extensions[e])

\* any(file_extension in text.lower() for file_extension in media_file_extensions)
IsMediaLine(text) ==
    \E e \in 1..Len(media_file_extensions) :
        Contains(Lower(text), media_file_extensions[e])

\* ":" in text
HasColon(text) == \E k \in 1..Len(text) : text[k] = Colon

\* text.split(":")[0]
SplitFirst(text) ==
    IF HasColon(text)
    THEN LET first == CHOOSE k \in 1..Len(text) :
                          /\ text[k] = Colon
                          /\ \A j \in 1..(k - 1) : text[j] # Colon
         IN SubSeq(text, 1, first - 1)
    ELSE text

\* ------------------------------------------------------------- annotations
\* Python exceptions an operation may end with.
NoError == "none"
KeyError == "KeyError"
IndexError == "IndexError"
TypeError == "TypeError"
FeatureConflict == "FeatureConflict"

\* Annotation.start_node of sentence i of the document txt: sentences follow
\* each other in the text, separated by one character.
RECURSIVE start_node(_, _)
start_node(txt, i) ==
    IF i = 1 THEN 0 ELSE start_node(txt, i - 1) + Len(txt[i - 1]) + 1

\* Insert sentence s into the list sorted by start_node, after equal keys.
RECURSIVE Insert(_, _, _)
Insert(sorted, s, txt) ==
    IF sorted = <<>> THEN <<s>>
    ELSE IF start_node(txt, s) < start_node(txt, Head(sorted))
         THEN <<s>> \o sorted
         ELSE <<Head(sorted)>> \o Insert(Tail(sorted), s, txt)

\* sorted(sentences, key=lambda x: x.start_node)
RECURSIVE Sorted(_, _)
Sorted(sentences, txt) ==
    IF sentences = <<>> THEN <<>>
    ELSE Insert(Sorted(SubSeq(sentences, 1, Len(sentences) - 1), txt),
                sentences[Len(sentences)], txt)

\* gatenlphiltlab.dlink on a list of sentences: the previous and next
\* relation of ascending start offset; 0 stands for None.
Dlink(sentences, txt) ==
    LET order == Sorted(sentences, txt)
        pos(s) == CHOOSE k \in 1..Len(order) : order[k] = s
    IN [previous |-> [s \in 1..Len(txt) |->
                         IF \E k \in 1..Len(order) : order[k] = s
                         THEN IF pos(s) = 1 THEN 0 ELSE order[pos(s) - 1]
                         ELSE 0],
        next |-> [s \in 1..Len(txt) |->
                     IF \E k \in 1..Len(order) : order[k] = s
                     THEN IF pos(s) = Len(order) THEN 0 ELSE order[pos(s) + 1]
                     ELSE 0]]

\* The feature map of a sentence maps the two feature names of this package
\* to their values; Absent marks a feature the sentence does not carry (it is
\* no text: texts are tuples of single characters).
Absent == <<"<absent>">>
NoFeatures == [Speaker |-> Absent, Turn_head |-> Absent]
FeatureNames == {"Speaker", "Turn_head"}

\* name in sentence.features
HasFeature(feats, s, name) == feats[s][name] # Absent

SetFeature(feats, s, name, value) == [feats EXCEPT ![s][name] = value]

\* Annotation.add_feature(name, value, overwrite): a new feature is added, an
\* existing one is replaced when overwrite is set, and an existing one with
\* another value makes the call fail when it is not.
add_feature(feats, s, name, value, overwrite) ==
    IF ~HasFeature(feats, s, name) \/ overwrite
    THEN [features |-> SetFeature(feats, s, name, value), error |-> NoError]
    ELSE IF feats[s][name] = value
         THEN [features |-> feats, error |-> NoError]
         ELSE [features |-> feats, error |-> FeatureConflict]

Call(s, name, value, overwrite) ==
    [sentence |-> s, name |-> name, value |-> value, overwrite |-> overwrite]

\* -------------------------------------------------------------- tag_speakers
\* Mutant of SpeakerStep: a media line with a colon updates the running tag.
SpeakerStepMediaUpdatesTag(text, speaker_tag) ==
    IF IsMediaLine(text)
    THEN [value |-> NoneStr,
          tag |-> IF HasColon(text) THEN SplitFirst(text) ELSE speaker_tag]
    ELSE IF HasColon(text)
         THEN [value |-> SplitFirst(text), tag |-> SplitFirst(text)]
         ELSE [value |-> speaker_tag, tag |-> speaker_tag]

\* One pass of the loop body of tag_speakers on a sentence with this text:
\* the value given to its Speaker feature and the running tag afterwards.
SpeakerStep(text, speaker_tag) ==
    IF IsMediaLine(text)
    THEN [value |-> NoneStr, tag |-> speaker_tag]
    ELSE IF HasColon(text)
         THEN [value |-> SplitFirst(text), tag |-> SplitFirst(text)]
         ELSE [value |-> speaker_tag, tag |-> speaker_tag]

\* The loop of tag_speakers from position k of the sorted list.
RECURSIVE TagSpeakersLoop(_, _, _, _, _, _, _)
TagSpeakersLoop(sorted, k, speaker_tag, txt, feats, calls, overwrite) ==
    IF k > Len(sorted)
    THEN [features |-> feats, calls |-> calls, error |-> NoError]
    ELSE LET sentence == sorted[k]
             step == SpeakerStep(txt[sentence], speaker_tag)
             r == add_feature(feats, sentence, "Speaker", step.value, overwrite)
             log == Append(calls,
                           Call(sentence, "Speaker", step.value, overwrite))
         IN IF r.error # NoError
            THEN [features |-> r.features, calls |-> log, error |-> r.error]
            ELSE TagSpeakersLoop(sorted, k + 1, step.tag, txt, r.features,
                                 log, overwrite)

tag_speakers(sentences, txt, feats, calls, overwrite) ==
    TagSpeakersLoop(Sorted(sentences, txt), 1, NoneStr, txt, feats, calls,
                    overwrite)

\* ----------------------------------------------------------------- tag_turns
\* sentence.features["Speaker"].value where the feature exists.
get_speaker(feats, s) == feats[s]["Speaker"]

\* Mutant of TurnHeadDecision: the lookback past a "None" speaker is dropped.
TurnHeadDecisionNoLookback(feats, prev, s) ==
    IF ~HasFeature(feats, s, "Speaker")
    THEN [error |-> KeyError, value |-> FalseStr]
    ELSE IF get_speaker(feats, s) = NoneStr
    THEN [error |-> NoError, value |-> FalseStr]
    ELSE IF prev[s] = 0
    THEN [error |-> NoError, value |-> TrueStr]
    ELSE IF prev[prev[s]] = 0
    THEN [error |-> NoError, value |-> TrueStr]
    ELSE IF ~HasFeature(feats, prev[s], "Speaker")
    THEN [error |-> KeyError, value |-> FalseStr]
    ELSE IF get_speaker(feats, prev[s]) = get_speaker(feats, s)
    THEN [error |-> NoError, value |-> FalseStr]
    ELSE [error |-> NoError, value |-> TrueStr]

\* Mutant of get_speaker_checked: a missing Speaker feature reads as "None".
get_speaker_defaulting(feats, s) ==
    [error |-> NoError,
     value |-> IF HasFeature(feats, s, "Speaker") THEN get_speaker(feats, s)
               ELSE NoneStr]

\* get_speaker(sentence): the value of the Speaker feature, or the KeyError
\* of features["Speaker"].
get_speaker_checked(feats, s) ==
    IF HasFeature(feats, s, "Speaker")
    THEN [error |-> NoError, value |-> get_speaker(feats, s)]
    ELSE [error |-> KeyError, value |-> Absent]

\* The Turn_head value tag_turns chooses for sentence s, or the KeyError of
\* the first get_speaker call that finds no Speaker feature.
TurnHeadDecision(feats, prev, s) ==
    LET current == get_speaker_checked(feats, s)
        previous_speaker == get_speaker_checked(feats, prev[s])
        second_speaker == get_speaker_checked(feats, prev[prev[s]])
    IN IF current.error # NoError
       THEN [error |-> current.error, value |-> FalseStr]
       ELSE IF current.value = NoneStr
       THEN [error |-> NoError, value |-> FalseStr]
       ELSE IF prev[s] = 0
       THEN [error |-> NoError, value |-> TrueStr]
       ELSE IF prev[prev[s]] = 0
       THEN [error |-> NoError, value |-> TrueStr]
       ELSE IF previous_speaker.error # NoError
       THEN [error |-> previous_speaker.error, value |-> FalseStr]
       ELSE IF previous_speaker.value = current.value
       THEN [error |-> NoError, value |-> FalseStr]
       ELSE IF previous_speaker.value = NoneStr
       THEN IF second_speaker.error # NoError
            THEN [error |-> second_speaker.error, value |-> FalseStr]
            ELSE IF second_speaker.value = current.value
                 THEN [error |-> NoError, value |-> FalseStr]
                 ELSE [error |-> NoError, value |-> TrueStr]
       ELSE [error |-> NoError, value |-> TrueStr]

\* The loop of tag_turns from position k of the sorted list.
RECURSIVE TagTurnsLoop(_, _, _, _, _, _)
TagTurnsLoop(sorted, k, prev, feats, calls, overwrite) ==
    IF k > Len(sorted)
    THEN [features |-> feats, calls |-> calls, error |-> NoError]
    ELSE LET sentence == sorted[k]
             d == TurnHeadDecision(feats, prev, sentence)
             r == add_feature(feats, sentence, "Turn_head", d.value, overwrite)
             log == Append(calls,
                           Call(sentence, "Turn_head", d.value, overwrite))
         IN IF d.error # NoError
            THEN [features |-> feats, calls |-> calls, error |-> d.error]
            ELSE IF r.error # NoError
            THEN [features |-> r.features, calls |-> log, error |-> r.error]
            ELSE TagTurnsLoop(sorted, k + 1, prev, r.features, log, overwrite)

tag_turns(sentences, txt, prev, feats, calls, overwrite) ==
    TagTurnsLoop(Sorted(sentences, txt), 1, prev, feats, calls, overwrite)

\* ---------------------------------------------------------------------- Turn
\* Python values that may be assigned to a Turn link: None, a Turn (named by
\* its position in the list get_turns returned), an int, a str (by its
\* length) or a sentence Annotation.
PyNone == [type |-> "NoneType", ref |-> 0]
TurnRef(k) == [type |-> "Turn", ref |-> k]
IntValue(v) == [type |-> "int", ref |-> v]
StrValue(len) == [type |-> "str", ref |-> len]
AnnotationRef(s) == [type |-> "Annotation", ref |-> s]

\* bool(value)
Truthy(value) ==
    CASE value.type = "NoneType" -> FALSE
      [] value.type = "int" -> value.ref # 0
      [] value.type = "str" -> value.ref # 0
      [] OTHER -> TRUE

\* The setters of Turn.next and Turn.previous: the stored link after the
\* assignment of value over the link old, and the exception raised.
TurnLinkSetter(old, value) ==
    IF Truthy(value) /\ value.type # "Turn"
    THEN [error |-> TypeError, link |-> old]
    ELSE [error |-> NoError, link |-> value]

\* is_turn_head(sentence): whether the Turn_head feature is "True", or the
\* KeyError of features["Turn_head"] on a sentence without the feature.
is_turn_head(feats, s) ==
    IF HasFeature(feats, s, "Turn_head")
    THEN [error |-> NoError, value |-> feats[s]["Turn_head"] = TrueStr]
    ELSE [error |-> KeyError, value |-> FALSE]

\* Python's list index: the place (from 1) that key names in a list of len
\* items, counting from the end when negative; 0 when out of range.
ListIndex(len, key) ==
    IF key >= 0
    THEN IF key < len THEN key + 1 ELSE 0
    ELSE IF key >= 0 - len THEN len + key + 1 ELSE 0

\* Turn.append(sentence)
TurnAppend(turn, sentence) ==
    [turn EXCEPT !.sentences = Append(turn.sentences, sentence)]

\* Turn.__setitem__(key, sentence): the Turn afterwards, and the IndexError
\* of the list assignment when key is out of range.
TurnSetItem(turn, key, sentence) ==
    IF ListIndex(Len(turn.sentences), key) = 0
    THEN [error |-> IndexError, turn |-> turn]
    ELSE [error |-> NoError,
          turn |-> [turn EXCEPT
                       !.sentences[ListIndex(Len(turn.sentences), key)] =
                           sentence]]

\* Turn(sentences): the new Turn, or the exception of self.sentences[0] and
\* of get_speaker.
NewTurn(sentences, feats) ==
    IF sentences = <<>>
    THEN [error |-> IndexError]
    ELSE IF ~HasFeature(feats, sentences[1], "Speaker")
    THEN [error |-> KeyError]
    ELSE [error |-> NoError,
          turn |-> [sentences |-> sentences,
                    speaker |-> get_speaker(feats, sentences[1]),
                    next |-> PyNone,
                    previous |-> PyNone]]

\* ----------------------------------------------------------------- get_turns
\* The while loop of get_turns over the queue of sentences, and the closing
\* of the last run.
RECURSIVE AssembleLoop(_, _, _, _)
AssembleLoop(sentence_queue, turns, turn_sentences, feats) ==
    IF sentence_queue = <<>>
    THEN IF turn_sentences # <<>>
         THEN LET t == NewTurn(turn_sentences, feats)
              IN IF t.error # NoError
                 THEN [error |-> t.error, turns |-> turns]
                 ELSE [error |-> NoError, turns |-> Append(turns, t.turn)]
         ELSE [error |-> NoError, turns |-> turns]
    ELSE LET current_sentence == Head(sentence_queue)
             head == is_turn_head(feats, current_sentence)
         IN IF head.error # NoError
            THEN [error |-> head.error, turns |-> turns]
            ELSE IF head.value
            THEN LET t == NewTurn(turn_sentences, feats)
                 IN IF t.error # NoError
                    THEN [error |-> t.error, turns |-> turns]
                    ELSE AssembleLoop(Tail(sentence_queue),
                                      Append(turns, t.turn),
                                      <<current_sentence>>, feats)
            ELSE AssembleLoop(Tail(sentence_queue), turns,
                              Append(turn_sentences, current_sentence), feats)

\* gatenlphiltlab.dlink on the list of Turns, which get_turns built in
\* ascending start offset: each link is assigned through the Turn setters.
DlinkTurns(turns) ==
    [k \in 1..Len(turns) |->
        [turns[k] EXCEPT
            !.previous = TurnLinkSetter(turns[k].previous,
                             IF k = 1 THEN PyNone ELSE TurnRef(k - 1)).link,
            !.next = TurnLinkSetter(turns[k].next,
                         IF k = Len(turns) THEN PyNone
                         ELSE TurnRef(k + 1)).link]]

\* sentence.turn = turn, for every sentence of every turn.
AssignTurns(turns, old) ==
    [s \in DOMAIN old |->
        IF \E k \in 1..Len(turns) :
               \E j \in 1..Len(turns[k].sentences) : turns[k].sentences[j] = s
        THEN CHOOSE k \in 1..Len(turns) :
                 \E j \in 1..Len(turns[k].sentences) : turns[k].sentences[j] = s
        ELSE old[s]]

\* Mutant of get_turns: the overwrite argument is handed on to the taggers.
get_turns_forwarding(sentences, txt, prev, feats, overwrite) ==
    LET sorted == Sorted(sentences, txt)
        r1 == tag_speakers(sorted, txt, feats, <<>>, overwrite)
        r2 == tag_turns(sorted, txt, prev, r1.features, r1.calls, overwrite)
        a == AssembleLoop(sorted, <<>>, <<>>, r2.features)
    IN IF r1.error # NoError
       THEN [features |-> r1.features, calls |-> r1.calls,
             error |-> r1.error, turns |-> <<>>]
       ELSE IF r2.error # NoError
       THEN [features |-> r2.features, calls |-> r2.calls,
             error |-> r2.error, turns |-> <<>>]
       ELSE IF a.error # NoError
       THEN [features |-> r2.features, calls |-> r2.calls,
             error |-> a.error, turns |-> <<>>]
       ELSE [features |-> r2.features, calls |-> r2.calls,
             error |-> NoError, turns |-> DlinkTurns(a.turns)]

\* get_turns(sentences, overwrite): the features and calls it leaves, the
\* exception it ends with and the Turns it returns.
get_turns(sentences, txt, prev, feats, overwrite) ==
    LET sorted == Sorted(sentences, txt)
        r1 == tag_speakers(sorted, txt, feats, <<>>, FALSE)
        r2 == tag_turns(sorted, txt, prev, r1.features, r1.calls, FALSE)
        a == AssembleLoop(sorted, <<>>, <<>>, r2.features)
    IN IF r1.error # NoError
       THEN [features |-> r1.features, calls |-> r1.calls,
             error |-> r1.error, turns |-> <<>>]
       ELSE IF r2.error # NoError
       THEN [features |-> r2.features, calls |-> r2.calls,
             error |-> r2.error, turns |-> <<>>]
       ELSE IF a.error # NoError
       THEN [features |-> r2.features, calls |-> r2.calls,
             error |-> a.error, turns |-> <<>>]
       ELSE [features |-> r2.features, calls |-> r2.calls,
             error |-> NoError, turns |-> DlinkTurns(a.turns)]

\* ------------------------------------------------------------ state machine
VARIABLES
    text,            \* the text of each sentence, in file order
    features,        \* the feature map of each sentence
    previous,        \* sentence.previous, 0 for None
    next,            \* sentence.next, 0 for None
    turns,           \* the Turns the last returning get_turns call built
    sentence_turn,   \* sentence.turn, 0 while unset
    last_op,         \* the operation that ran last
    last_overwrite,  \* its overwrite argument
    error,           \* the exception it ended with
    calls,           \* the add_feature calls it made
    presets,         \* features set on the document by the caller so far
    assigns          \* assignments to Turn links so far

vars == <<text, features, previous, next, turns, sentence_turn, last_op,
          last_overwrite, error, calls, presets, assigns>>

N == Len(text)
Sentences == 1..N

\* The sentence lists a caller passes: the document in file order and
\* reversed.
Identity(n) == [k \in 1..n |-> k]
Reversed(n) == [k \in 1..n |-> n + 1 - k]
ArgOrders(n) == {Identity(n), Reversed(n)}

Documents(maxlen) == UNION {[1..n -> Texts] : n \in 0..maxlen}

\* The state after get_sentences(annotation_file): the sentences of the
\* file, doubly linked, carrying no feature of this package.
InitOn(docs) ==
    /\ text \in docs
    /\ features = [s \in 1..Len(text) |-> NoFeatures]
    /\ previous = Dlink(Identity(Len(text)), text).previous
    /\ next = Dlink(Identity(Len(text)), text).next
    /\ turns = <<>>
    /\ sentence_turn = [s \in 1..Len(text) |-> 0]
    /\ last_op = "get_sentences"
    /\ last_overwrite = FALSE
    /\ error = NoError
    /\ calls = <<>>
    /\ presets = 0
    /\ assigns = 0

Init == InitOn(Documents(MaxLen))

InitSmall == InitOn(Documents(MaxLenSmall))

\* tag_speakers(sentences, overwrite)
TagSpeakers(sentences, overwrite) ==
    \E r \in {tag_speakers(sentences, text, features, <<>>, overwrite)} :
       /\ features' = r.features
       /\ calls' = r.calls
       /\ error' = r.error
       /\ last_op' = "tag_speakers"
       /\ last_overwrite' = overwrite
       /\ UNCHANGED <<text, previous, next, turns, sentence_turn, presets,
                      assigns>>

\* tag_turns(sentences, overwrite)
TagTurns(sentences, overwrite) ==
    \E r \in {tag_turns(sentences, text, previous, features, <<>>,
                          overwrite)} :
       /\ features' = r.features
       /\ calls' = r.calls
       /\ error' = r.error
       /\ last_op' = "tag_turns"
       /\ last_overwrite' = overwrite
       /\ UNCHANGED <<text, previous, next, turns, sentence_turn, presets,
                      assigns>>

\* get_turns(sentences, overwrite); a call that raises returns no Turns and
\* leaves the earlier ones and sentence.turn as they were.
GetTurns(sentences, overwrite) ==
    \E r \in {get_turns(sentences, text, previous, features, overwrite)} :
       /\ features' = r.features
       /\ calls' = r.calls
       /\ error' = r.error
       /\ last_op' = "get_turns"
       /\ last_overwrite' = overwrite
       /\ turns' = IF r.error = NoError THEN r.turns ELSE turns
       /\ sentence_turn' = IF r.error = NoError
                           THEN AssignTurns(r.turns, sentence_turn)
                           ELSE sentence_turn
       /\ assigns' = IF r.error = NoError THEN 0 ELSE assigns
       /\ UNCHANGED <<text, previous, next, presets>>

\* sentence.add_feature(name, value, overwrite) by the caller, before the
\* taggers run (a document saved with features of an earlier run).
PresetValues(name) ==
    IF name = "Speaker" THEN {<<"A">>, NoneStr} ELSE {TrueStr, FalseStr}

AddFeature(s, name, value, overwrite) ==
    LET r == add_feature(features, s, name, value, overwrite)
    IN /\ presets < MaxPreset
       /\ last_op \in {"get_sentences", "add_feature"}
       /\ presets' = presets + 1
       /\ features' = r.features
       /\ calls' = <<Call(s, name, value, overwrite)>>
       /\ error' = r.error
       /\ last_op' = "add_feature"
       /\ last_overwrite' = overwrite
       /\ UNCHANGED <<text, previous, next, turns, sentence_turn, assigns>>

\* The values a caller assigns to a Turn link.
LinkValues ==
    {PyNone, IntValue(0), StrValue(1), AnnotationRef(1)}
        \cup {TurnRef(k) : k \in 1..Len(turns)}

\* turn.next = value
SetNext(t, value) ==
    LET r == TurnLinkSetter(turns[t].next, value)
    IN /\ assigns < MaxAssign
       /\ assigns' = assigns + 1
       /\ turns' = [turns EXCEPT ![t].next = r.link]
       /\ error' = r.error
       /\ last_op' = "set_next"
       /\ last_overwrite' = FALSE
       /\ calls' = <<>>
       /\ UNCHANGED <<text, features, previous, next, sentence_turn, presets>>

\* turn.previous = value
SetPrevious(t, value) ==
    LET r == TurnLinkSetter(turns[t].previous, value)
    IN /\ assigns < MaxAssign
       /\ assigns' = assigns + 1
       /\ turns' = [turns EXCEPT ![t].previous = r.link]
       /\ error' = r.error
       /\ last_op' = "set_previous"
       /\ last_overwrite' = FALSE
       /\ calls' = <<>>
       /\ UNCHANGED <<text, features, previous, next, sentence_turn, presets>>

\* turn.append(sentence)
AppendSentence(t, sentence) ==
    /\ assigns < MaxAssign
    /\ assigns' = assigns + 1
    /\ turns' = [turns EXCEPT ![t] = TurnAppend(turns[t], sentence)]
    /\ error' = NoError
    /\ last_op' = "append"
    /\ last_overwrite' = FALSE
    /\ calls' = <<>>
    /\ UNCHANGED <<text, features, previous, next, sentence_turn, presets>>

\* turn[key] = sentence
SetItem(t, key, sentence) ==
    \E r \in {TurnSetItem(turns[t], key, sentence)} :
       /\ assigns < MaxAssign
       /\ assigns' = assigns + 1
       /\ turns' = [turns EXCEPT ![t] = r.turn]
       /\ error' = r.error
       /\ last_op' = "setitem"
       /\ last_overwrite' = FALSE
       /\ calls' = <<>>
       /\ UNCHANGED <<text, features, previous, next, sentence_turn, presets>>

TagSpeakersStep ==
    \E sentences \in ArgOrders(N), overwrite \in BOOLEAN :
        TagSpeakers(sentences, overwrite)

TagTurnsStep ==
    \E sentences \in ArgOrders(N), overwrite \in BOOLEAN :
        TagTurns(sentences, overwrite)

GetTurnsStep ==
    \E sentences \in ArgOrders(N), overwrite \in BOOLEAN :
        GetTurns(sentences, overwrite)

AddFeatureStep ==
    \E s \in Sentences, name \in FeatureNames, overwrite \in BOOLEAN :
        \E value \in PresetValues(name) : AddFeature(s, name, value, overwrite)

SetNextStep ==
    \E t \in 1..Len(turns) : \E value \in LinkValues : SetNext(t, value)

AppendSentenceStep ==
    \E t \in 1..Len(turns), sentence \in Sentences :
        AppendSentence(t, sentence)

\* Keys from one before the last item backwards to one past the end.
SetItemStep ==
    \E t \in 1..Len(turns), sentence \in Sentences :
        \E key \in (0 - 1)..Len(turns[t].sentences) :
            SetItem(t, key, sentence)

SetPreviousStep ==
    \E t \in 1..Len(turns) : \E value \in LinkValues : SetPrevious(t, value)

\* The tagging pipeline on a freshly loaded document.
Next == TagSpeakersStep \/ TagTurnsStep \/ GetTurnsStep

Spec == Init /\ [][Next]_vars

\* The pipeline on a document that already carries features.
NextOverwrite ==
    AddFeatureStep \/ TagSpeakersStep \/ TagTurnsStep \/ GetTurnsStep

SpecOverwrite == InitSmall /\ [][NextOverwrite]_vars

\* Turn assembly followed by assignments to the links and to the sentence
\* lists of the Turns.
NextLinks ==
    \/ GetTurnsStep
    \/ SetNextStep
    \/ SetPreviousStep
    \/ AppendSentenceStep
    \/ SetItemStep

SpecLinks == InitSmall /\ [][NextLinks]_vars

\* ------------------------------------------------------------------ claims
\* The statements below speak of sentences by their place in ascending start
\* offset, which is the file order of the documents above.
Speaker(s) == features[s]["Speaker"]
TurnHead(s) == features[s]["Turn_head"]

\* Both taggers have run to their end in the last operation or before it.
TaggingDone ==
    \/ last_op = "tag_turns" /\ error = NoError
    \/ last_op = "get_turns" /\ error \in {NoError, IndexError}

\* The sentences of the Turns, concatenated in Turn order.
RECURSIVE ConcatTurns(_)
ConcatTurns(ts) ==
    IF ts = <<>> THEN <<>> ELSE Head(ts).sentences \o ConcatTurns(Tail(ts))

\* The lower-cased text holds one of the six media extensions.
MentionsMediaFile(t) ==
    \E ext \in {media_file_extensions[e] : e \in 1..Len(media_file_extensions)} :
        \E k \in 0..(Len(t) - Len(ext)) :
            \A j \in 1..Len(ext) : LowerChar(t[k + j]) = ext[j]

\* C1: get_turns returns Turns whose sentence lists, concatenated in Turn
\* order, are the input sentences in ascending start offset.
TurnCoverage ==
    last_op = "get_turns" =>
        /\ error = NoError
        /\ ConcatTurns(turns) = Identity(N)

\* C2: get_turns never builds a Turn from an empty run, and every Turn it
\* returns holds a sentence.
NoEmptyTurn ==
    last_op = "get_turns" =>
        /\ error # IndexError
        /\ \A t \in 1..Len(turns) : turns[t].sentences # <<>>

\* C3: on a non-empty document the first sentence has Turn_head "True" and is
\* the first sentence of the first Turn get_turns returns.
FirstSentenceRule ==
    (last_op = "get_turns" /\ N > 0) =>
        /\ TurnHead(1) = TrueStr
        /\ error = NoError
        /\ Len(turns) > 0
        /\ turns[1].sentences[1] = 1

\* C4: of two adjacent sentences with equal Speaker labels other than "None",
\* the later has Turn_head "False" and both are in one Turn of get_turns.
SpeakerContinuity ==
    last_op = "get_turns" =>
        \A s \in 2..N :
            (Speaker(s) = Speaker(s - 1) /\ Speaker(s) \notin {NoneStr, Absent})
                => /\ TurnHead(s) = FalseStr
                   /\ error = NoError
                   /\ sentence_turn[s] # 0
                   /\ sentence_turn[s] = sentence_turn[s - 1]

\* C5: a sentence that mentions a media file has Speaker "None" once
\* tag_speakers has run and Turn_head "False" once tag_turns has run after it,
\* at every position and also when its text holds a colon.
MediaLineExclusion ==
    /\ (last_op = "tag_speakers" /\ error = NoError) =>
           \A s \in Sentences : MentionsMediaFile(text[s]) => Speaker(s) = NoneStr
    /\ TaggingDone =>
           \A s \in Sentences :
               MentionsMediaFile(text[s])
                   => Speaker(s) = NoneStr /\ TurnHead(s) = FalseStr

\* Witness of C5: tag_turns has run on a document whose first sentence is a
\* media line with a colon, followed by a tagged sentence.
MediaLineExclusionWitness ==
    /\ last_op = "tag_turns" /\ error = NoError /\ N >= 2
    /\ MentionsMediaFile(text[1]) /\ HasColon(text[1])
    /\ Speaker(1) = NoneStr /\ TurnHead(1) = FalseStr
    /\ Speaker(2) # NoneStr

\* C6: the next and previous fields of every Turn are None or a Turn.
TurnLinksAreTurns ==
    \A t \in 1..Len(turns) :
        /\ turns[t].next.type \in {"NoneType", "Turn"}
        /\ turns[t].previous.type \in {"NoneType", "Turn"}

\* C7: tag_turns on a non-empty document on which no Speaker feature is set
\* fails with the KeyError of get_speaker before it adds any Turn_head.
MissingFeatureError ==
    (last_op = "tag_turns" /\ N > 0
        /\ \A s \in Sentences : Speaker(s) = Absent)
        => /\ error = KeyError
           /\ calls = <<>>
           /\ \A s \in Sentences : TurnHead(s) = Absent

\* Witness of C7: tag_turns has failed on an untagged document of several
\* sentences.
MissingFeatureErrorWitness ==
    /\ last_op = "tag_turns" /\ error = KeyError /\ N >= 2
    /\ \A s \in Sentences : Speaker(s) = Absent /\ TurnHead(s) = Absent

\* The label C8 gives sentence s of the document txt.
ExpectedSpeaker(txt, s) ==
    LET tagged == {j \in 1..s : ~MentionsMediaFile(txt[j]) /\ HasColon(txt[j])}
        nearest == CHOOSE j \in tagged : \A i \in tagged : i <= j
    IN IF MentionsMediaFile(txt[s]) \/ tagged = {}
       THEN NoneStr
       ELSE SplitFirst(txt[nearest])

\* The document txt without its sentence m.
WithoutSentence(txt, m) == SubSeq(txt, 1, m - 1) \o SubSeq(txt, m + 1, Len(txt))

\* The Speaker labels tag_speakers gives the untagged document txt.
SpeakersOf(txt) ==
    LET r == tag_speakers(Identity(Len(txt)), txt,
                          [s \in 1..Len(txt) |-> NoFeatures], <<>>, FALSE)
    IN [s \in 1..Len(txt) |-> r.features[s]["Speaker"]]

\* C8: tag_speakers labels a media line "None" and every other sentence with
\* the text before the first colon of the nearest tagged non-media sentence at
\* or before it ("None" without one); the sentence after a media line is
\* labelled as in the document without the media line.
SpeakerPropagation ==
    (last_op = "tag_speakers" /\ error = NoError) =>
        /\ \A s \in Sentences : Speaker(s) = ExpectedSpeaker(text, s)
        /\ \A m \in 1..(N - 1) :
               MentionsMediaFile(text[m])
                   => Speaker(m + 1) = SpeakersOf(WithoutSentence(text, m))[m]

\* Witness of C8: a tag is carried past a media line that itself holds a
\* colon, to a sentence without one.
SpeakerPropagationWitness ==
    /\ last_op = "tag_speakers" /\ error = NoError /\ N >= 3
    /\ \E m \in 2..(N - 1) :
           /\ MentionsMediaFile(text[m]) /\ HasColon(text[m])
           /\ ~HasColon(text[m + 1]) /\ ~MentionsMediaFile(text[m + 1])
           /\ Speaker(m + 1) = <<"A">>
           /\ SplitFirst(text[m]) = <<"B">>

\* The six rows of the Turn-head table, first match first, on the Speaker
\* labels of a sentence and of the two before it.
TurnHeadTable(current, has_previous, has_second, previous_speaker, second) ==
    CASE current = NoneStr -> FalseStr
      [] current # NoneStr /\ ~has_previous -> TrueStr
      [] current # NoneStr /\ has_previous /\ ~has_second -> TrueStr
      [] current # NoneStr /\ has_previous /\ has_second
             /\ previous_speaker = current -> FalseStr
      [] current # NoneStr /\ has_previous /\ has_second
             /\ previous_speaker # current /\ previous_speaker = NoneStr ->
                 IF second = current THEN FalseStr ELSE TrueStr
      [] OTHER -> TrueStr

\* C9: the Turn_head tag_turns sets on each sentence is the first matching
\* row of the table on the speakers of the sentence and the two before it.
TurnHeadDecisionTable ==
    TaggingDone =>
        \A s \in Sentences :
            TurnHead(s) =
                TurnHeadTable(Speaker(s), s > 1, s > 2,
                              IF s > 1 THEN Speaker(s - 1) ELSE Absent,
                              IF s > 2 THEN Speaker(s - 2) ELSE Absent)

\* Witness of C9: both outcomes of the row that looks two sentences back,
\* in a document of four sentences.
TurnHeadDecisionTableWitness ==
    /\ last_op = "tag_turns" /\ error = NoError /\ N >= 4
    /\ Speaker(2) = NoneStr /\ Speaker(1) = Speaker(3) /\ Speaker(3) # NoneStr
    /\ TurnHead(3) = FalseStr
    /\ Speaker(4) # Speaker(3) /\ TurnHead(4) = TrueStr

\* C10: get_turns with overwrite set and unset ends in the same features,
\* calls, exception and Turns, and every add_feature call of get_turns is
\* made with overwrite unset.
OverwriteIgnored ==
    /\ \A sentences \in ArgOrders(N) :
           get_turns(sentences, text, previous, features, TRUE)
               = get_turns(sentences, text, previous, features, FALSE)
    /\ last_op = "get_turns" =>
           \A k \in 1..Len(calls) : calls[k].overwrite = FALSE

\* Witness of C10: get_turns was called with overwrite set on a document
\* that carries a Speaker feature of another value, and did not replace it.
OverwriteIgnoredWitness ==
    /\ last_op = "get_turns" /\ last_overwrite /\ error = FeatureConflict
    /\ \E s \in Sentences :
           Speaker(s) # Absent /\ Speaker(s) # ExpectedSpeaker(text, s)
====
